---- MODULE Spec2Model ----
(***************************************************************************)
(* Credential lifecycle of Cyclo-backend: AuthService (register, login,    *)
(* refresh, forgot/reset password, verify email, resend verification,      *)
(* logout), the JWT codec and its in-memory blacklist (JWTUtils), the      *)
(* authenticateToken middleware, and the parts of UserService and          *)
(* AuthController that write the users / accounts tables.                  *)
(*                                                                         *)
(* Time is counted in units of 15 minutes; every handler runs to           *)
(* completion as one step (Node runs one request's synchronous part at a   *)
(* time, and each handler is modelled whole).                              *)
(***************************************************************************)
EXTENDS Integers, FiniteSets, Sequences, TLC

\* ---------------------------------------------------------------- bounds
MaxTime == 100
MaxTokens == 3
MaxSecure == 3
MaxGenerated == 1
MaxFollows == 3

\* ------------------------------------------------------- program constants
\* JWTUtils expiries, in units of 15 minutes ("15m", "7d", "24h", "1h")
ACCESS_TOKEN_EXPIRY == 1
REFRESH_TOKEN_EXPIRY == 672
EMAIL_TOKEN_EXPIRY == 96
PASSWORD_RESET_TOKEN_EXPIRY == 4
\* Date.now() + 24 * 60 * 60 * 1000 in register / resendVerification
REGISTER_VERIFICATION_TTL == 96
RESEND_VERIFICATION_TTL == 96
\* Date.now() + 60 * 60 * 1000 in forgotPassword
RESET_TTL == 4

\* ------------------------------------------------------------ input domains
Emails == {"a@x.com", "b@x.com"}
Passwords == {"pw1", "pw2"}
TokenTypes == {"access", "refresh", "email_verification", "password_reset"}
SecureTokens == 1..MaxSecure

\* SQL NULL in the token / expiry / lastLoginAt columns
NullToken == 0
NullDate == -1

\* process.env as JWTUtils.getJWTSecret reads it; "" is an unset variable
DistinctEnv ==
  [access |-> "JWT_ACCESS_SECRET", refresh |-> "JWT_REFRESH_SECRET",
   email_verification |-> "JWT_EMAIL_SECRET",
   password_reset |-> "JWT_PASSWORD_RESET_SECRET", JWT_SECRET |-> "JWT_SECRET"]
SharedEnv ==
  [access |-> "", refresh |-> "", email_verification |-> "",
   password_reset |-> "", JWT_SECRET |-> "JWT_SECRET"]
Envs == {DistinctEnv, SharedEnv}
\* only JWT_REFRESH_SECRET is set: refresh tokens can be signed and verified,
\* the other types have no secret
RefreshOnlyEnv ==
  [access |-> "", refresh |-> "JWT_REFRESH_SECRET", email_verification |-> "",
   password_reset |-> "", JWT_SECRET |-> ""]

\* ------------------------------------------------------------------ tokens
\* a JWT string, by what jwt.sign puts in it; sig is the secret that signed it
NoToken ==
  [fmt |-> "none", userId |-> 0, email |-> "", type |-> "", iat |-> 0,
   exp |-> 0, sig |-> ""]
\* a string jwt.decode cannot decode
Garbage == [NoToken EXCEPT !.fmt = "garbage"]
\* a well-formed JWT signed with a key that is none of the server's
Forged ==
  [fmt |-> "jwt", userId |-> 1, email |-> "a@x.com", type |-> "refresh",
   iat |-> 0, exp |-> REFRESH_TOKEN_EXPIRY, sig |-> "attacker"]

VARIABLES
  users,             \* users table: id -> row
  accounts,          \* accounts table: userId -> row
  tokenBlacklist,    \* JWTUtils.tokenBlacklist
  blacklistedTokens, \* JWTUtils.blacklistedTokens
  env,               \* process.env
  now,               \* the clock
  nextSecure,        \* number of CryptoUtils.generateSecureToken results so far
  issued,            \* JWTs handed out so far
  last,              \* the last call and what it returned
  revoked,           \* history: tokens blacklisted since the last clearBlacklist
  regPw,             \* history: email -> password its registration stored, while unchanged
  registering,       \* register calls between their existence check and their insert
  userFollows        \* user_follows table: the rows in insertion order

vars ==
  <<users, accounts, tokenBlacklist, blacklistedTokens, env, now, nextSecure,
    issued, last, revoked, regPw, registering, userFollows>>

\* ------------------------------------------------------------ CryptoUtils
hashPassword(password) == <<"bcrypt", password>>

comparePassword(password, hashedPassword) ==
  /\ Len(hashedPassword) = 2
  /\ hashedPassword[1] = "bcrypt"
  /\ hashedPassword[2] = password

\* --------------------------------------------------------------- JWTUtils
getJWTSecret(tokenType) ==
  IF env[tokenType] # "" THEN env[tokenType] ELSE env.JWT_SECRET

getTokenExpiry(tokenType) ==
  CASE tokenType = "access" -> ACCESS_TOKEN_EXPIRY
    [] tokenType = "refresh" -> REFRESH_TOKEN_EXPIRY
    [] tokenType = "email_verification" -> EMAIL_TOKEN_EXPIRY
    [] tokenType = "password_reset" -> PASSWORD_RESET_TOKEN_EXPIRY
    [] OTHER -> ACCESS_TOKEN_EXPIRY

\* generateToken: NoToken stands for the thrown "Failed to generate" error
generateToken(userId, email, tokenType) ==
  IF getJWTSecret(tokenType) = "" THEN NoToken
  ELSE [fmt |-> "jwt", userId |-> userId, email |-> email, type |-> tokenType,
        iat |-> now, exp |-> now + getTokenExpiry(tokenType),
        sig |-> getJWTSecret(tokenType)]

generateAccessToken(userId, email) == generateToken(userId, email, "access")
generateRefreshToken(userId, email) == generateToken(userId, email, "refresh")

isTokenBlacklisted(token) == token \in tokenBlacklist

\* jwt.verify(token, secret): "" when it returns the payload, else the error
\* message (signature is checked before expiry; expired is clockTimestamp >= exp)
jwtVerify(token, secret) ==
  IF token.fmt # "jwt" THEN "jwt malformed"
  ELSE IF token.sig # secret THEN "invalid signature"
  ELSE IF now >= token.exp THEN "jwt expired"
  ELSE ""

VerifyOk(token) == [ok |-> TRUE, err |-> "", payload |-> token]
VerifyThrow(msg) == [ok |-> FALSE, err |-> msg, payload |-> NoToken]

verifyTokenNoTypeCheck(token, tokenType) ==
  IF isTokenBlacklisted(token) THEN VerifyThrow("Token has been revoked")
  ELSE IF getJWTSecret(tokenType) = "" THEN VerifyThrow("JWT secret not found")
  ELSE IF jwtVerify(token, getJWTSecret(tokenType)) # ""
    THEN VerifyThrow("Invalid token: " \o jwtVerify(token, getJWTSecret(tokenType)))
  ELSE VerifyOk(token)

\* verifyToken: TokenExpiredError is a JsonWebTokenError, so all three jwt
\* errors come out as "Invalid token: <message>"
verifyToken(token, tokenType) ==
  IF isTokenBlacklisted(token) THEN VerifyThrow("Token has been revoked")
  ELSE IF getJWTSecret(tokenType) = "" THEN VerifyThrow("JWT secret not found")
  ELSE IF jwtVerify(token, getJWTSecret(tokenType)) # ""
    THEN VerifyThrow("Invalid token: " \o jwtVerify(token, getJWTSecret(tokenType)))
  ELSE IF token.type # tokenType THEN VerifyThrow("Invalid token type")
  ELSE VerifyOk(token)

verifyAccessToken(token) == verifyToken(token, "access")
verifyRefreshToken(token) == verifyToken(token, "refresh")

\* jwt.decode: no signature or expiry check
decodable(token) == token.fmt = "jwt"

\* getTokenExpiration throws when the token does not decode
canBlacklist(token) == decodable(token)


\* ------------------------------------------------------------ result shapes
\* ServiceResponse: {success, data?, error?: {code, message}}
NoRes ==
  [success |-> FALSE, hasData |-> FALSE, message |-> "", accessToken |-> NoToken,
   refreshToken |-> NoToken, hasError |-> FALSE, code |-> "", errMessage |-> ""]
Success(msg, at, rt) ==
  [NoRes EXCEPT !.success = TRUE, !.hasData = TRUE, !.message = msg,
                !.accessToken = at, !.refreshToken = rt]
Failure(code, msg) ==
  [NoRes EXCEPT !.hasError = TRUE, !.code = code, !.errMessage = msg]

\* the record of a call: its arguments, its result, what the tables held for
\* its argument when it was made (hit: the row its lookup key names), and the
\* outcome of the e-mail dispatch it made (mail)
Last0 ==
  [op |-> "init", email |-> "", password |-> "", token |-> NoToken, type |-> "",
   key |-> NullToken, res |-> NoRes, hit |-> 0, hitExp |-> NullDate,
   wasBlacklisted |-> FALSE, next |-> FALSE, verify |-> VerifyThrow(""),
   current |-> "", ret |-> "", mail |-> "",
   follower |-> 0, following |-> 0, isFollowing |-> FALSE, roles |-> {}]

\* ------------------------------------------------------------------ tables
UserIds == DOMAIN users
NewUserId == Cardinality(DOMAIN users) + 1

\* db.query.users.findFirst({where: eq(users.email, email)}); 0 when no row
findUserByEmail(email) ==
  IF \E u \in UserIds : users[u].email = email
  THEN CHOOSE u \in UserIds : users[u].email = email
  ELSE 0

hasAccount(u) == u \in DOMAIN accounts

\* the comparison a query for unexpired rows would make
LtMutant(column, value) == column # NullDate /\ column > value
\* SQL lt(column, value): NULL compares as not-less
Lt(column, value) == column # NullDate /\ column < value

\* a lookup that would also accept the token issued just before the stored one
verificationTokenOwnerStale(key) ==
  IF \E u \in DOMAIN accounts : accounts[u].emailVerificationToken \in {key, key + 1}
  THEN CHOOSE u \in DOMAIN accounts : accounts[u].emailVerificationToken \in {key, key + 1}
  ELSE 0
\* the accounts row whose reset / verification token column equals the key
resetTokenOwner(key) ==
  IF \E u \in DOMAIN accounts : accounts[u].passwordResetToken = key
  THEN CHOOSE u \in DOMAIN accounts : accounts[u].passwordResetToken = key
  ELSE 0
verificationTokenOwner(key) ==
  IF \E u \in DOMAIN accounts : accounts[u].emailVerificationToken = key
  THEN CHOOSE u \in DOMAIN accounts : accounts[u].emailVerificationToken = key
  ELSE 0

\* findFirst({where: and(eq(passwordResetToken, token), lt(passwordResetExpires, new Date()))})
findAccountByResetToken(key) ==
  IF resetTokenOwner(key) # 0
     /\ Lt(accounts[resetTokenOwner(key)].passwordResetExpires, now)
  THEN resetTokenOwner(key) ELSE 0
\* findFirst({where: and(eq(emailVerificationToken, token), lt(emailVerificationExpires, new Date()))})
findAccountByVerificationToken(key) ==
  IF verificationTokenOwner(key) # 0
     /\ Lt(accounts[verificationTokenOwner(key)].emailVerificationExpires, now)
  THEN verificationTokenOwner(key) ELSE 0

\* --------------------------------------------------------- EmailTemplates
\* sendEmailVerification(to, data) builds the template from data first; a call
\* that passes one argument leaves data undefined and the template throws.
\* Otherwise the dispatch itself may fail (no RESEND_API_KEY, network).
sendEmailVerification(dataGiven) == IF dataGiven THEN {"sent", "throw"} ELSE {"throw"}
sendPasswordReset == {"sent", "throw"}
sendWelcomeEmail == {"sent", "throw"}
sendPasswordChangedConfirmation == {"sent", "throw"}

\* the requests the server handles at once, and a request that is not
\* inside register
Procs == {1, 2}
Idle == [email |-> "", password |-> ""]

\* -------------------------------------------------------------------- Init
Init ==
  /\ users = <<>>
  /\ accounts = <<>>
  /\ tokenBlacklist = {}
  /\ blacklistedTokens = <<>>
  /\ env \in Envs
  /\ now = 0
  /\ nextSecure = 0
  /\ issued = {}
  /\ last = Last0
  /\ revoked = {}
  /\ regPw = [e \in Emails |-> ""]
  /\ registering = [p \in Procs |-> Idle]
  /\ userFollows = <<>>

Room(n) == Cardinality(issued) + n <= MaxTokens

\* ----------------------------------------------------- AuthService.register
NewUserRow(email) ==
  [email |-> email, isEmailVerified |-> FALSE, isBanned |-> FALSE,
   lastLoginAt |-> NullDate, role |-> "user"]
NewAccountRowPlain(password, token) ==
  [password |-> <<"plain", password>>, emailVerificationToken |-> token,
   emailVerificationExpires |-> now + REGISTER_VERIFICATION_TTL,
   passwordResetToken |-> NullToken, passwordResetExpires |-> NullDate]
NewAccountRow(password, token) ==
  [password |-> hashPassword(password), emailVerificationToken |-> token,
   emailVerificationExpires |-> now + REGISTER_VERIFICATION_TTL,
   passwordResetToken |-> NullToken, passwordResetExpires |-> NullDate]

Register(email, password) ==
  LET call == [Last0 EXCEPT !.op = "register", !.email = email,
                            !.password = password, !.hit = findUserByEmail(email)]
  IN
  IF findUserByEmail(email) # 0
  THEN /\ last' = [call EXCEPT !.res =
                     Failure("USER_EXISTS", "User with this email already exists")]
       /\ UNCHANGED <<userFollows, registering, users, accounts, tokenBlacklist, blacklistedTokens, env,
                      now, nextSecure, issued, revoked, regPw>>
  ELSE /\ nextSecure < MaxSecure
       /\ nextSecure' = nextSecure + 1
       \* db.transaction: the users row and the accounts row
       /\ users' = (NewUserId :> NewUserRow(email)) @@ users
       /\ accounts' = (NewUserId :> NewAccountRow(password, nextSecure + 1)) @@ accounts
       /\ regPw' = [regPw EXCEPT ![email] = password]
       \* the call passes the data object alone: sendEmailVerification({...})
       /\ \E outcome \in sendEmailVerification(FALSE) :
            IF outcome = "throw"
            THEN /\ last' = [call EXCEPT !.mail = outcome, !.res =
                               Failure("REGISTRATION_FAILED", "Failed to register user")]
                 /\ UNCHANGED issued
            ELSE /\ Room(2)
                 /\ issued' = issued \cup {generateAccessToken(NewUserId, email),
                                           generateRefreshToken(NewUserId, email)}
                 /\ last' = [call EXCEPT !.mail = outcome, !.res =
                               Success("", generateAccessToken(NewUserId, email),
                                       generateRefreshToken(NewUserId, email))]
       /\ UNCHANGED <<userFollows, registering, tokenBlacklist, blacklistedTokens, env, now, revoked>>

\* register as concurrent requests run it: the handler awaits the existence
\* query, and the transaction with the two inserts runs after other requests
\* may have run theirs.
RegisterCheck(proc, email, password) ==
  /\ registering[proc] = Idle
  /\ IF findUserByEmail(email) # 0
     THEN /\ last' = [Last0 EXCEPT !.op = "register", !.email = email,
                                   !.password = password,
                                   !.hit = findUserByEmail(email), !.res =
                        Failure("USER_EXISTS", "User with this email already exists")]
          /\ UNCHANGED registering
     ELSE /\ registering' = [registering EXCEPT ![proc] =
                               [email |-> email, password |-> password]]
          /\ last' = [Last0 EXCEPT !.op = "register check", !.email = email]
  /\ UNCHANGED <<userFollows, users, accounts, tokenBlacklist, blacklistedTokens, env, now,
                 nextSecure, issued, revoked, regPw>>

\* users.email is unique: the insert of a second row with the email is
\* rejected, the transaction rolls back and the catch answers
RegisterInsert(proc) ==
  LET email == registering[proc].email
      password == registering[proc].password
      call == [Last0 EXCEPT !.op = "register", !.email = email,
                            !.password = password, !.hit = findUserByEmail(email)]
  IN
  /\ registering[proc] # Idle
  /\ registering' = [registering EXCEPT ![proc] = Idle]
  /\ IF findUserByEmail(email) # 0
     THEN /\ last' = [call EXCEPT !.res =
                        Failure("REGISTRATION_FAILED", "Failed to register user")]
          /\ UNCHANGED <<users, accounts, nextSecure, issued, regPw>>
     ELSE /\ nextSecure < MaxSecure
          /\ nextSecure' = nextSecure + 1
          /\ users' = (NewUserId :> NewUserRow(email)) @@ users
          /\ accounts' = (NewUserId :> NewAccountRow(password, nextSecure + 1)) @@ accounts
          /\ regPw' = [regPw EXCEPT ![email] = password]
          /\ \E outcome \in sendEmailVerification(FALSE) :
               IF outcome = "throw"
               THEN /\ last' = [call EXCEPT !.mail = outcome, !.res =
                                  Failure("REGISTRATION_FAILED", "Failed to register user")]
                    /\ UNCHANGED issued
               ELSE /\ Room(2)
                    /\ issued' = issued \cup {generateAccessToken(NewUserId, email),
                                              generateRefreshToken(NewUserId, email)}
                    /\ last' = [call EXCEPT !.mail = outcome, !.res =
                                  Success("", generateAccessToken(NewUserId, email),
                                          generateRefreshToken(NewUserId, email))]
  /\ UNCHANGED <<userFollows, tokenBlacklist, blacklistedTokens, env, now, revoked>>

\* -------------------------------------------------------- AuthService.login
InvalidCredentials == Failure("INVALID_CREDENTIALS", "Invalid email or password")

loginFailureRevealing(email, password) ==
  LET u == findUserByEmail(email) IN
  IF u = 0 THEN Failure("USER_NOT_FOUND", "User not found")
  ELSE IF ~hasAccount(u) THEN InvalidCredentials
  ELSE IF users[u].isBanned THEN Failure("USER_BANNED", "Account has been banned")
  ELSE IF ~comparePassword(password, accounts[u].password) THEN InvalidCredentials
  ELSE NoRes

\* a login that compares the password before it looks at the ban flag
loginFailurePasswordFirst(email, password) ==
  LET u == findUserByEmail(email) IN
  IF u = 0 \/ ~hasAccount(u) THEN InvalidCredentials
  ELSE IF ~comparePassword(password, accounts[u].password) THEN InvalidCredentials
  ELSE IF users[u].isBanned THEN Failure("USER_BANNED", "Account has been banned")
  ELSE NoRes

\* NoRes when every check passes; banReason is not modelled, so the
\* USER_BANNED message is the default one
loginFailure(email, password) ==
  LET u == findUserByEmail(email) IN
  IF u = 0 \/ ~hasAccount(u) THEN InvalidCredentials
  ELSE IF users[u].isBanned THEN Failure("USER_BANNED", "Account has been banned")
  ELSE IF ~comparePassword(password, accounts[u].password) THEN InvalidCredentials
  ELSE NoRes

loginSucceeds(email, password) == loginFailure(email, password) = NoRes

\* an update that would also touch the verification state
touchLastLoginAndVerify(u) ==
  [users EXCEPT ![u].lastLoginAt = now, ![u].isEmailVerified = TRUE]
\* update(users).set({lastLoginAt: new Date()}).where(eq(users.id, user.id))
touchLastLogin(u) == [users EXCEPT ![u].lastLoginAt = now]

Login(email, password) ==
  LET u == findUserByEmail(email)
      call == [Last0 EXCEPT !.op = "login", !.email = email,
                            !.password = password, !.hit = u]
  IN
  IF ~loginSucceeds(email, password)
  THEN /\ last' = [call EXCEPT !.res = loginFailure(email, password)]
       /\ UNCHANGED <<userFollows, registering, users, accounts, tokenBlacklist, blacklistedTokens, env,
                      now, nextSecure, issued, revoked, regPw>>
  ELSE /\ Room(2)
       /\ users' = touchLastLogin(u)
       /\ issued' = issued \cup {generateAccessToken(u, email),
                                 generateRefreshToken(u, email)}
       /\ last' = [call EXCEPT !.res =
                     Success("", generateAccessToken(u, email),
                             generateRefreshToken(u, email))]
       /\ UNCHANGED <<userFollows, registering, accounts, tokenBlacklist, blacklistedTokens, env, now,
                      nextSecure, revoked, regPw>>


\* ------------------------------------------------- AuthService.refreshToken
\* verifyRefreshToken throws or returns a payload (never a falsy value), and it
\* throws for a blacklisted token before the blacklist test below it is reached
\* a refreshToken without its try/catch: a verification error leaves no result
refreshTokenResultUncaught(token) ==
  LET v == verifyRefreshToken(token) IN
  IF ~v.ok THEN NoRes
  ELSE IF v.payload.userId \notin UserIds \/ users[v.payload.userId].isBanned
    THEN Failure("USER_NOT_FOUND", "User not found or banned")
  ELSE Success("", generateAccessToken(v.payload.userId,
                                       users[v.payload.userId].email), NoToken)

refreshTokenResult(token) ==
  LET v == verifyRefreshToken(token) IN
  IF ~v.ok THEN Failure("TOKEN_REFRESH_FAILED", "Failed to refresh token")
  ELSE IF isTokenBlacklisted(token)
    THEN Failure("TOKEN_BLACKLISTED", "Token has been revoked")
  ELSE IF v.payload.userId \notin UserIds \/ users[v.payload.userId].isBanned
    THEN Failure("USER_NOT_FOUND", "User not found or banned")
  ELSE Success("", generateAccessToken(v.payload.userId,
                                       users[v.payload.userId].email), NoToken)

\* a refresh that rotates: the presented token is revoked on success
RefreshTokenRotating(token) ==
  LET res == refreshTokenResult(token)
      call == [Last0 EXCEPT !.op = "refreshToken", !.token = token,
                            !.wasBlacklisted = isTokenBlacklisted(token),
                            !.verify = verifyRefreshToken(token),
                            !.res = res]
  IN
  /\ res.success => Cardinality(issued \cup {res.accessToken}) <= MaxTokens
  /\ issued' = IF res.success THEN issued \cup {res.accessToken} ELSE issued
  /\ tokenBlacklist' = IF res.success THEN tokenBlacklist \cup {token}
                       ELSE tokenBlacklist
  /\ last' = call
  /\ UNCHANGED <<userFollows, registering, users, accounts, blacklistedTokens, env, now, nextSecure,
                 revoked, regPw>>

RefreshToken(token) ==
  LET res == refreshTokenResult(token)
      call == [Last0 EXCEPT !.op = "refreshToken", !.token = token,
                            !.wasBlacklisted = isTokenBlacklisted(token),
                            !.verify = verifyRefreshToken(token),
                            !.res = res]
  IN
  /\ res.success => Cardinality(issued \cup {res.accessToken}) <= MaxTokens
  /\ issued' = IF res.success THEN issued \cup {res.accessToken} ELSE issued
  /\ last' = call
  /\ UNCHANGED <<userFollows, registering, users, accounts, tokenBlacklist, blacklistedTokens, env, now,
                 nextSecure, revoked, regPw>>

\* ----------------------------------------------- AuthService.forgotPassword
ForgotGeneric ==
  Success("If an account with that email exists, a password reset link has been sent",
          NoToken, NoToken)

ForgotPassword(email) ==
  LET u == findUserByEmail(email)
      call == [Last0 EXCEPT !.op = "forgotPassword", !.email = email, !.hit = u]
  IN
  IF u = 0 \/ ~hasAccount(u)
  THEN /\ last' = [call EXCEPT !.res = ForgotGeneric]
       /\ UNCHANGED <<userFollows, registering, users, accounts, tokenBlacklist, blacklistedTokens, env,
                      now, nextSecure, issued, revoked, regPw>>
  ELSE /\ nextSecure < MaxSecure
       /\ nextSecure' = nextSecure + 1
       /\ accounts' = [accounts EXCEPT ![u].passwordResetToken = nextSecure + 1,
                                       ![u].passwordResetExpires = now + RESET_TTL]
       /\ \E outcome \in sendPasswordReset :
            last' = [call EXCEPT !.key = nextSecure + 1, !.mail = outcome, !.res =
                       IF outcome = "throw"
                       THEN Failure("FORGOT_PASSWORD_FAILED",
                                    "Failed to process password reset request")
                       ELSE ForgotGeneric]
       /\ UNCHANGED <<userFollows, registering, users, tokenBlacklist, blacklistedTokens, env, now,
                      issued, revoked, regPw>>

\* ------------------------------------------------ AuthService.resetPassword
ResetPassword(key, password) ==
  LET a == findAccountByResetToken(key)
      owner == resetTokenOwner(key)
      call == [Last0 EXCEPT !.op = "resetPassword", !.key = key,
                            !.password = password, !.hit = owner,
                            !.hitExp = IF owner = 0 THEN NullDate
                                       ELSE accounts[owner].passwordResetExpires]
  IN
  IF a = 0 \/ accounts[a].passwordResetExpires = NullDate
  THEN /\ last' = [call EXCEPT !.res =
                     Failure("INVALID_TOKEN", "Invalid or expired reset token")]
       /\ UNCHANGED <<userFollows, registering, users, accounts, tokenBlacklist, blacklistedTokens, env,
                      now, nextSecure, issued, revoked, regPw>>
  ELSE IF now > accounts[a].passwordResetExpires
  THEN /\ last' = [call EXCEPT !.res =
                     Failure("TOKEN_EXPIRED", "Reset token has expired")]
       /\ UNCHANGED <<userFollows, registering, users, accounts, tokenBlacklist, blacklistedTokens, env,
                      now, nextSecure, issued, revoked, regPw>>
  ELSE /\ accounts' = [accounts EXCEPT ![a].password = hashPassword(password),
                                       ![a].passwordResetToken = NullToken,
                                       ![a].passwordResetExpires = NullDate]
       /\ regPw' = [regPw EXCEPT ![users[a].email] = ""]
       /\ \E outcome \in sendPasswordChangedConfirmation :
            last' = [call EXCEPT !.mail = outcome, !.res =
                       IF outcome = "throw"
                       THEN Failure("RESET_PASSWORD_FAILED", "Failed to reset password")
                       ELSE Success("Password has been reset successfully",
                                    NoToken, NoToken)]
       /\ UNCHANGED <<userFollows, registering, users, tokenBlacklist, blacklistedTokens, env, now,
                      nextSecure, issued, revoked>>

\* -------------------------------------------------- AuthService.verifyEmail
VerifyEmail(key) ==
  LET a == findAccountByVerificationToken(key)
      owner == verificationTokenOwner(key)
      call == [Last0 EXCEPT !.op = "verifyEmail", !.key = key, !.hit = owner,
                            !.hitExp = IF owner = 0 THEN NullDate
                                       ELSE accounts[owner].emailVerificationExpires]
  IN
  IF a = 0 \/ accounts[a].emailVerificationExpires = NullDate
  THEN /\ last' = [call EXCEPT !.res =
                     Failure("INVALID_TOKEN", "Invalid or expired verification token")]
       /\ UNCHANGED <<userFollows, registering, users, accounts, tokenBlacklist, blacklistedTokens, env,
                      now, nextSecure, issued, revoked, regPw>>
  ELSE IF now > accounts[a].emailVerificationExpires
  THEN /\ last' = [call EXCEPT !.res =
                     Failure("TOKEN_EXPIRED", "Verification token has expired")]
       /\ UNCHANGED <<userFollows, registering, users, accounts, tokenBlacklist, blacklistedTokens, env,
                      now, nextSecure, issued, revoked, regPw>>
  ELSE \* db.transaction: the flag and the token columns together
       /\ users' = [users EXCEPT ![a].isEmailVerified = TRUE]
       /\ accounts' = [accounts EXCEPT ![a].emailVerificationToken = NullToken,
                                       ![a].emailVerificationExpires = NullDate]
       /\ \E outcome \in sendWelcomeEmail :
            last' = [call EXCEPT !.mail = outcome, !.res =
                       IF outcome = "throw"
                       THEN Failure("EMAIL_VERIFICATION_FAILED", "Failed to verify email")
                       ELSE Success("Email verified successfully", NoToken, NoToken)]
       /\ UNCHANGED <<userFollows, registering, tokenBlacklist, blacklistedTokens, env, now, nextSecure,
                      issued, revoked, regPw>>

\* ------------------------------------------- AuthService.resendVerification
ResendGeneric ==
  Success("If an account with that email exists and is unverified, a verification email has been sent",
          NoToken, NoToken)

ResendVerification(email) ==
  LET u == findUserByEmail(email)
      call == [Last0 EXCEPT !.op = "resendVerification", !.email = email,
                            !.hit = IF u # 0 /\ hasAccount(u) THEN u ELSE 0]
  IN
  IF u = 0 \/ ~hasAccount(u)
  THEN /\ last' = [call EXCEPT !.res = ResendGeneric]
       /\ UNCHANGED <<userFollows, registering, users, accounts, tokenBlacklist, blacklistedTokens, env,
                      now, nextSecure, issued, revoked, regPw>>
  ELSE IF users[u].isEmailVerified
  THEN /\ last' = [call EXCEPT !.res =
                     Failure("ALREADY_VERIFIED", "Email is already verified")]
       /\ UNCHANGED <<userFollows, registering, users, accounts, tokenBlacklist, blacklistedTokens, env,
                      now, nextSecure, issued, revoked, regPw>>
  ELSE /\ nextSecure < MaxSecure
       /\ nextSecure' = nextSecure + 1
       /\ accounts' = [accounts EXCEPT
                         ![u].emailVerificationToken = nextSecure + 1,
                         ![u].emailVerificationExpires = now + RESEND_VERIFICATION_TTL]
       \* the call passes the data object alone: sendEmailVerification({...})
       /\ \E outcome \in sendEmailVerification(FALSE) :
            last' = [call EXCEPT !.key = nextSecure + 1, !.mail = outcome, !.res =
                       IF outcome = "throw"
                       THEN Failure("RESEND_VERIFICATION_FAILED",
                                    "Failed to resend verification email")
                       ELSE Success("Verification email sent successfully",
                                    NoToken, NoToken)]
       /\ UNCHANGED <<userFollows, registering, users, tokenBlacklist, blacklistedTokens, env, now,
                      issued, revoked, regPw>>


\* ------------------------------------ JWTUtils blacklist and AuthService.logout
\* blacklistToken: the entry {token, expiresAt, createdAt} goes in the set and
\* in the map; createdAt is read by nothing and is left out of the entry
blacklistEntry(token) == [expiresAt |-> token.exp]

Logout(token) ==
  LET call == [Last0 EXCEPT !.op = "logout", !.token = token,
                            !.wasBlacklisted = isTokenBlacklisted(token)]
  IN
  IF ~canBlacklist(token)
  THEN \* blacklistToken throws "Failed to blacklist token"
       /\ last' = [call EXCEPT !.res = Failure("LOGOUT_FAILED", "Failed to logout")]
       /\ UNCHANGED <<userFollows, registering, users, accounts, tokenBlacklist, blacklistedTokens, env,
                      now, nextSecure, issued, revoked, regPw>>
  ELSE /\ tokenBlacklist' = tokenBlacklist \cup {token}
       /\ blacklistedTokens' =
            [t \in DOMAIN blacklistedTokens \cup {token} |->
               IF t = token THEN blacklistEntry(token) ELSE blacklistedTokens[t]]
       /\ revoked' = revoked \cup {token}
       /\ last' = [call EXCEPT !.res =
                     Success("Logged out successfully", NoToken, NoToken)]
       /\ UNCHANGED <<userFollows, registering, users, accounts, env, now, nextSecure, issued, regPw>>

\* the entries cleanupExpiredTokens deletes
expiredEntriesAll == DOMAIN blacklistedTokens
expiredEntries ==
  {t \in DOMAIN blacklistedTokens : blacklistedTokens[t].expiresAt < now}

\* a cleanup that forgets the membership set
JwtCleanupMapOnly ==
  /\ tokenBlacklist' = tokenBlacklist
  /\ blacklistedTokens' =
       [t \in DOMAIN blacklistedTokens \ expiredEntries |-> blacklistedTokens[t]]
  /\ last' = [Last0 EXCEPT !.op = "cleanupExpiredTokens"]
  /\ UNCHANGED <<userFollows, registering, users, accounts, env, now, nextSecure, issued, revoked, regPw>>

JwtCleanupExpiredTokens ==
  /\ tokenBlacklist' = tokenBlacklist \ expiredEntries
  /\ blacklistedTokens' =
       [t \in DOMAIN blacklistedTokens \ expiredEntries |-> blacklistedTokens[t]]
  /\ last' = [Last0 EXCEPT !.op = "cleanupExpiredTokens"]
  /\ UNCHANGED <<userFollows, registering, users, accounts, env, now, nextSecure, issued, revoked, regPw>>

ClearBlacklist ==
  /\ tokenBlacklist' = {}
  /\ blacklistedTokens' = <<>>
  /\ revoked' = {}
  /\ last' = [Last0 EXCEPT !.op = "clearBlacklist"]
  /\ UNCHANGED <<userFollows, registering, users, accounts, env, now, nextSecure, issued, regPw>>

\* a direct JWTUtils.verifyToken(token, tokenType) call
VerifyToken(token, tokenType) ==
  /\ last' = [Last0 EXCEPT !.op = "verifyToken", !.token = token,
                           !.type = tokenType,
                           !.wasBlacklisted = isTokenBlacklisted(token),
                           !.verify = verifyToken(token, tokenType)]
  /\ UNCHANGED <<userFollows, registering, users, accounts, tokenBlacklist, blacklistedTokens, env, now,
                 nextSecure, issued, revoked, regPw>>

\* a direct JWTUtils.generateToken({userId, email}, tokenType) call; the
\* payload is the caller's and need not name a row of the users table
GenerateToken(userId, email, tokenType) ==
  /\ generateToken(userId, email, tokenType) # NoToken
  /\ Cardinality(issued \cup {generateToken(userId, email, tokenType)}) <= MaxGenerated
  /\ issued' = issued \cup {generateToken(userId, email, tokenType)}
  /\ last' = [Last0 EXCEPT !.op = "generateToken", !.type = tokenType,
                           !.token = generateToken(userId, email, tokenType)]
  /\ UNCHANGED <<userFollows, registering, users, accounts, tokenBlacklist, blacklistedTokens, env, now,
                 nextSecure, revoked, regPw>>

\* ------------------------------------------------- UserService.toggleFollow
\* user_follows has a generated primary key and no unique index on
\* (follower_id, following_id); both columns reference users.id
FollowRow(followerId, followingId) ==
  [followerId |-> followerId, followingId |-> followingId]
hasFollowRow(followerId, followingId) ==
  \E i \in 1..Len(userFollows) : userFollows[i] = FollowRow(followerId, followingId)
\* findFirst where follower_id = followedUserId and following_id = userId
followerExists(userId, followedUserId) == hasFollowRow(followedUserId, userId)
IsNot(row, other) == row # other
ToggleFollow(userId, followedUserId) ==
  LET call == [Last0 EXCEPT !.op = "toggleFollow", !.follower = userId,
                            !.following = followedUserId]
      kept(row) == IsNot(row, FollowRow(userId, followedUserId))
  IN
  /\ IF followerExists(userId, followedUserId)
     THEN /\ userFollows' = SelectSeq(userFollows, kept)
          /\ last' = [call EXCEPT !.ret = "returned", !.isFollowing = FALSE]
     ELSE IF userId \notin UserIds \/ followedUserId \notin UserIds
     THEN \* the insert violates a foreign key and the error is rethrown
          /\ last' = [call EXCEPT !.ret = "threw"]
          /\ UNCHANGED userFollows
     ELSE /\ Len(userFollows) < MaxFollows
          /\ userFollows' = Append(userFollows, FollowRow(userId, followedUserId))
          /\ last' = [call EXCEPT !.ret = "returned", !.isFollowing = TRUE]
  /\ UNCHANGED <<registering, users, accounts, tokenBlacklist, blacklistedTokens,
                 env, now, nextSecure, issued, revoked, regPw>>

\* ------------------------------------------ AuthService.cleanupExpiredTokens
\* one UPDATE: the rows whose verification expiry AND reset expiry are both
\* before now get the four token columns set to null (a NULL expiry never
\* satisfies lt)
sweptRows ==
  {a \in DOMAIN accounts :
     /\ Lt(accounts[a].emailVerificationExpires, now)
     /\ Lt(accounts[a].passwordResetExpires, now)}
AuthCleanupExpiredTokens ==
  /\ accounts' =
       [a \in DOMAIN accounts |->
          IF a \in sweptRows
          THEN [accounts[a] EXCEPT !.emailVerificationToken = NullToken,
                                   !.emailVerificationExpires = NullDate,
                                   !.passwordResetToken = NullToken,
                                   !.passwordResetExpires = NullDate]
          ELSE accounts[a]]
  /\ last' = [Last0 EXCEPT !.op = "cleanupExpiredTokens"]
  /\ UNCHANGED <<userFollows, registering, users, tokenBlacklist, blacklistedTokens, env, now,
                 nextSecure, issued, revoked, regPw>>

\* ---------------------------------------------- JWTUtils.refreshAccessToken
\* verifyRefreshToken, then blacklistToken, then generateTokenPair (access
\* first); any throw is rethrown as "Failed to refresh token: ...".  The call
\* record keeps the returned pair in res and "returned" / "threw" in ret.
RefreshAccessToken(token) ==
  LET v == verifyRefreshToken(token)
      at == generateAccessToken(v.payload.userId, v.payload.email)
      rt == generateRefreshToken(v.payload.userId, v.payload.email)
      call == [Last0 EXCEPT !.op = "refreshAccessToken", !.token = token,
                            !.wasBlacklisted = isTokenBlacklisted(token),
                            !.verify = v]
  IN
  IF ~v.ok
  THEN /\ last' = [call EXCEPT !.ret = "threw"]
       /\ UNCHANGED <<userFollows, registering, users, accounts, tokenBlacklist, blacklistedTokens,
                      env, now, nextSecure, issued, revoked, regPw>>
  ELSE /\ tokenBlacklist' = tokenBlacklist \cup {token}
       /\ blacklistedTokens' =
            [t \in DOMAIN blacklistedTokens \cup {token} |->
               IF t = token THEN blacklistEntry(token) ELSE blacklistedTokens[t]]
       /\ revoked' = revoked \cup {token}
       /\ IF at = NoToken \/ rt = NoToken
          THEN /\ last' = [call EXCEPT !.ret = "threw"]
               /\ UNCHANGED issued
          ELSE /\ Cardinality(issued \cup {at, rt}) <= MaxTokens
               /\ issued' = issued \cup {at, rt}
               /\ last' = [call EXCEPT !.ret = "returned",
                                       !.res = Success("", at, rt)]
       /\ UNCHANGED <<userFollows, registering, users, accounts, env, now, nextSecure, regPw>>

\* ------------------------------------------------ middleware authenticateToken
\* the token of the Authorization header (NoToken: no Bearer header); the
\* result is the 401 code, or "" when next() is called
authenticateTokenCode(token) ==
  IF token = NoToken THEN "NO_TOKEN"
  ELSE IF isTokenBlacklisted(token) THEN "TOKEN_BLACKLISTED"
  ELSE IF ~verifyAccessToken(token).ok THEN "AUTH_ERROR"
  ELSE ""

AuthenticateToken(token) ==
  /\ last' = [Last0 EXCEPT !.op = "authenticateToken", !.token = token,
                           !.wasBlacklisted = isTokenBlacklisted(token),
                           !.next = (authenticateTokenCode(token) = ""),
                           !.res = IF authenticateTokenCode(token) = "" THEN NoRes
                                   ELSE Failure(authenticateTokenCode(token), "")]
  /\ UNCHANGED <<userFollows, registering, users, accounts, tokenBlacklist, blacklistedTokens, env, now,
                 nextSecure, issued, revoked, regPw>>

\* ------------------------------------------------- middleware requireRole
Roles == {"user", "admin", "moderator"}
AdminOnly == {"admin"}
ModeratorOrAdmin == {"admin", "moderator"}
\* a role read from the users table instead of the token
roleOfDatabase(token) ==
  IF token.userId \in UserIds THEN users[token.userId].role ELSE "undefined"
\* payload.role of a decoded token: generateAccessToken signs {userId, email}
\* only, so the field is undefined unless the caller of generateToken put a
\* role into the payload
roleOf(token) ==
  IF "role" \in DOMAIN token THEN token.role ELSE "undefined"
\* JWTUtils.generateToken({userId, email, role}, "access") called directly
generateTokenWithRole(userId, email, role) ==
  [fmt |-> "jwt", userId |-> userId, email |-> email, type |-> "access",
   iat |-> now, exp |-> now + getTokenExpiry("access"),
   sig |-> getJWTSecret("access"), role |-> role]
GenerateTokenWithRole(userId, email, role) ==
  /\ getJWTSecret("access") # ""
  /\ Cardinality(issued \cup {generateTokenWithRole(userId, email, role)}) <= MaxTokens
  /\ Cardinality({t \in issued : "role" \in DOMAIN t}
                   \cup {generateTokenWithRole(userId, email, role)}) <= MaxGenerated
  /\ issued' = issued \cup {generateTokenWithRole(userId, email, role)}
  /\ last' = [Last0 EXCEPT !.op = "generateToken", !.type = "access",
                           !.token = generateTokenWithRole(userId, email, role)]
  /\ UNCHANGED <<userFollows, registering, users, accounts, tokenBlacklist,
                 blacklistedTokens, env, now, nextSecure, revoked, regPw>>
\* authenticateToken, then requireRole(roles): the 401 code of the first, or
\* 403 INSUFFICIENT_PERMISSIONS, or next()
requireRoleCode(token, roles) ==
  IF authenticateTokenCode(token) # "" THEN authenticateTokenCode(token)
  ELSE IF roleOf(token) \notin roles THEN "INSUFFICIENT_PERMISSIONS"
  ELSE ""
RequireRole(token, roles) ==
  /\ last' = [Last0 EXCEPT !.op = "requireRole", !.token = token, !.roles = roles,
                           !.wasBlacklisted = isTokenBlacklisted(token),
                           !.next = (requireRoleCode(token, roles) = ""),
                           !.res = IF requireRoleCode(token, roles) = "" THEN NoRes
                                   ELSE Failure(requireRoleCode(token, roles), "")]
  /\ UNCHANGED <<userFollows, registering, users, accounts, tokenBlacklist,
                 blacklistedTokens, env, now, nextSecure, issued, revoked, regPw>>

\* ------------------------------------------------- POST /api/v1/auth/logout
\* authenticateToken first; when it calls next(), AuthController.logout takes
\* the same token from the header and hands it to AuthService.logout
LogoutRoute(token) ==
  IF authenticateTokenCode(token) # ""
  THEN /\ last' = [Last0 EXCEPT !.op = "logoutRoute", !.token = token,
                                !.wasBlacklisted = isTokenBlacklisted(token),
                                !.res = Failure(authenticateTokenCode(token), "")]
       /\ UNCHANGED <<userFollows, registering, users, accounts, tokenBlacklist,
                      blacklistedTokens, env, now, nextSecure, issued, revoked, regPw>>
  ELSE Logout(token)

\* ------------------------------------------------------------- UserService
\* const userExists = db.query.users.findFirst(...) without await: the value
\* tested by `if (!userExists)` is the pending Promise, truthy whether or not
\* a row will be found
unawaitedFindFirst(found) == TRUE

\* UserService.updateUserProfile and the answer of UserController.updateProfile;
\* the update sets updatedAt and profile columns, none of which is modelled,
\* and matches no row when the id is absent
UpdateUserProfile(u) ==
  /\ last' = [Last0 EXCEPT !.op = "updateUserProfile",
                           !.hit = u,
                           !.ret = IF ~unawaitedFindFirst(u \in UserIds) THEN "false" ELSE "true",
                           !.res = IF ~unawaitedFindFirst(u \in UserIds)
                                   THEN Failure("NOT_FOUND", "User not found")
                                   ELSE Success("User profile updated successfully",
                                                NoToken, NoToken)]
  /\ UNCHANGED <<userFollows, registering, users, accounts, tokenBlacklist,
                 blacklistedTokens, env, now, nextSecure, issued, revoked, regPw>>

\* UserService.getFollowers / getFollowings: null only behind the same test,
\* otherwise the joined rows (none for an absent id)
GetFollowers(u) ==
  /\ last' = [Last0 EXCEPT !.op = "getFollowers", !.hit = u,
                           !.ret = IF ~unawaitedFindFirst(u \in UserIds) THEN "null" ELSE "rows"]
  /\ UNCHANGED <<userFollows, registering, users, accounts, tokenBlacklist,
                 blacklistedTokens, env, now, nextSecure, issued, revoked, regPw>>
GetFollowings(u) ==
  /\ last' = [Last0 EXCEPT !.op = "getFollowings", !.hit = u,
                           !.ret = IF ~unawaitedFindFirst(u \in UserIds) THEN "null" ELSE "rows"]
  /\ UNCHANGED <<userFollows, registering, users, accounts, tokenBlacklist,
                 blacklistedTokens, env, now, nextSecure, issued, revoked, regPw>>

\* UserService.getAccountStats: (result as any)[0] of db.execute; for an id
\* with no users row that is the driver's empty row list or undefined,
\* depending on the shape the driver returns
GetAccountStats(u) ==
  /\ \E r \in IF ~unawaitedFindFirst(u \in UserIds) THEN {"null"}
               ELSE IF u \in UserIds THEN {"stats"}
               ELSE {"rows", "undefined"} :
       last' = [Last0 EXCEPT !.op = "getAccountStats", !.hit = u, !.ret = r]
  /\ UNCHANGED <<userFollows, registering, users, accounts, tokenBlacklist,
                 blacklistedTokens, env, now, nextSecure, issued, revoked, regPw>>

\* ------------------------------------------------ UserService.deleteAccount
\* accountExists is a pending Promise, never falsy: the delete always runs and
\* the method returns true; the accounts row goes, the users row stays
DeleteAccount(u) ==
  /\ accounts' = [a \in DOMAIN accounts \ {u} |-> accounts[a]]
  /\ regPw' = [e \in Emails |->
                 IF u \in UserIds /\ users[u].email = e THEN "" ELSE regPw[e]]
  /\ last' = [Last0 EXCEPT !.op = "deleteAccount", !.hit = u, !.ret = "true"]
  /\ UNCHANGED <<userFollows, registering, users, tokenBlacklist, blacklistedTokens, env, now, nextSecure,
                 issued, revoked>>

\* a change that does not ask for the current password
ChangePasswordUnchecked(token, currentPassword, newPassword) ==
  /\ authenticateTokenCode(token) = ""
  /\ hasAccount(token.userId)
  /\ accounts' = [accounts EXCEPT ![token.userId].password = hashPassword(newPassword)]
  /\ regPw' = [regPw EXCEPT ![token.email] = ""]
  /\ last' = [Last0 EXCEPT !.op = "changePassword", !.token = token,
                           !.current = currentPassword, !.password = newPassword,
                           !.res = Success("Password changed successfully", NoToken, NoToken)]
  /\ UNCHANGED <<userFollows, registering, users, tokenBlacklist, blacklistedTokens, env,
                 now, nextSecure, issued, revoked>>

\* --------------------------- POST /auth/change-password (authenticateToken,
\* then AuthController.changePassword)
ChangePassword(token, currentPassword, newPassword) ==
  LET call == [Last0 EXCEPT !.op = "changePassword", !.token = token,
                            !.current = currentPassword, !.password = newPassword]
      u == token.userId
  IN
  IF authenticateTokenCode(token) # ""
  THEN /\ last' = [call EXCEPT !.res = Failure(authenticateTokenCode(token), "")]
       /\ UNCHANGED <<userFollows, registering, users, accounts, tokenBlacklist, blacklistedTokens, env,
                      now, nextSecure, issued, revoked, regPw>>
  ELSE IF ~loginSucceeds(token.email, currentPassword)
  THEN /\ last' = [call EXCEPT !.res =
                     Failure("INVALID_CURRENT_PASSWORD", "Current password is incorrect")]
       /\ UNCHANGED <<userFollows, registering, users, accounts, tokenBlacklist, blacklistedTokens, env,
                      now, nextSecure, issued, revoked, regPw>>
  ELSE \* the login updated lastLoginAt; its token pair is dropped.  The
       \* resetPassword call with a fresh random token finds no row and its
       \* result is ignored; then the direct update by userId.
       /\ users' = [users EXCEPT ![findUserByEmail(token.email)].lastLoginAt = now]
       /\ accounts' = IF hasAccount(u)
                      THEN [accounts EXCEPT ![u].password = hashPassword(newPassword)]
                      ELSE accounts
       /\ regPw' = [regPw EXCEPT ![token.email] = ""]
       /\ last' = [call EXCEPT !.res =
                     Success("Password changed successfully", NoToken, NoToken)]
       /\ UNCHANGED <<userFollows, registering, tokenBlacklist, blacklistedTokens, env, now, nextSecure,
                      issued, revoked>>

\* ---------------------------------------------- AuthService.getUserProfile
GetUserProfile(u) ==
  /\ last' = [Last0 EXCEPT !.op = "getUserProfile",
                           !.hit = IF u \in UserIds THEN u ELSE 0,
                           !.res = IF u \in UserIds
                                   THEN Success("", NoToken, NoToken)
                                   ELSE Failure("USER_NOT_FOUND", "User not found")]
  /\ UNCHANGED <<userFollows, registering, users, accounts, tokenBlacklist, blacklistedTokens, env, now,
                 nextSecure, issued, revoked, regPw>>

\* ------------------------------------------------ the catch of each operation
\* the operations that begin with a store query, and what each one's catch
\* block returns when that query rejects: nothing has been written yet
StoreFirstOps ==
  {"register", "login", "forgotPassword", "resetPassword", "verifyEmail",
   "resendVerification", "getUserProfile"}
catchResult(op) ==
  CASE op = "register" -> Failure("REGISTRATION_FAILED", "Failed to register user")
    [] op = "login" -> Failure("LOGIN_FAILED", "Failed to login user")
    [] op = "forgotPassword" ->
         Failure("FORGOT_PASSWORD_FAILED", "Failed to process password reset request")
    [] op = "resetPassword" -> Failure("RESET_PASSWORD_FAILED", "Failed to reset password")
    [] op = "verifyEmail" -> Failure("EMAIL_VERIFICATION_FAILED", "Failed to verify email")
    [] op = "resendVerification" ->
         Failure("RESEND_VERIFICATION_FAILED", "Failed to resend verification email")
    [] op = "getUserProfile" -> Failure("GET_PROFILE_FAILED", "Failed to get user profile")

StoreThrows(op) ==
  /\ last' = [Last0 EXCEPT !.op = op, !.ret = "store threw", !.res = catchResult(op)]
  /\ UNCHANGED <<userFollows, registering, users, accounts, tokenBlacklist, blacklistedTokens, env, now,
                 nextSecure, issued, revoked, regPw>>

\* ------------------------------------------------------------- environment
\* users.is_banned is written by no code of the repository: an administrator
\* sets it in the database
SetBanned(u, banned) ==
  /\ u \in UserIds
  /\ users[u].isBanned # banned
  /\ users' = [users EXCEPT ![u].isBanned = banned]
  /\ last' = [Last0 EXCEPT !.op = "setBanned", !.hit = u]
  /\ UNCHANGED <<userFollows, registering, accounts, tokenBlacklist, blacklistedTokens, env, now,
                 nextSecure, issued, revoked, regPw>>

\* users.role defaults to "user" and is written by no code of the repository
SetRole(u, role) ==
  /\ u \in UserIds
  /\ users[u].role # role
  /\ users' = [users EXCEPT ![u].role = role]
  /\ last' = [Last0 EXCEPT !.op = "setRole", !.hit = u]
  /\ UNCHANGED <<userFollows, registering, accounts, tokenBlacklist, blacklistedTokens, env, now,
                 nextSecure, issued, revoked, regPw>>

\* time passes, up to an instant at which some expiry is reached or just passed
TickTo(expiries) ==
  /\ \E e \in expiries, d \in {0, 1} : e + d > now /\ e + d <= MaxTime /\ now' = e + d
  /\ last' = [Last0 EXCEPT !.op = "tick"]
  /\ UNCHANGED <<userFollows, registering, users, accounts, tokenBlacklist, blacklistedTokens, env,
                 nextSecure, issued, revoked, regPw>>

\* the expiries the JWT operations compare the clock with
JwtExpiries ==
  {t.exp : t \in issued}
  \cup {blacklistedTokens[t].expiresAt : t \in DOMAIN blacklistedTokens}
\* the expiries the accounts table stores
StoredExpiries ==
  {accounts[a].emailVerificationExpires : a \in DOMAIN accounts}
  \cup {accounts[a].passwordResetExpires : a \in DOMAIN accounts}

TickJwt == TickTo(JwtExpiries)
TickStored == TickTo(StoredExpiries \ {NullDate})

\* time passes up to the last expiry still ahead (or just past it): every
\* stored and signed expiry that the clock can reach is then behind
ExpiriesAhead ==
  {e \in JwtExpiries \cup (StoredExpiries \ {NullDate}) : e >= now /\ e < MaxTime}
TickLate ==
  /\ ExpiriesAhead # {}
  /\ TickTo({CHOOSE e \in ExpiriesAhead : \A f \in ExpiriesAhead : f <= e})
\* the same, once: from the instant the process started
TickOnce == now = 0 /\ TickLate

\* the token strings a client can present: the ones handed out, and junk
Tokens == issued \cup {Garbage}

\* login and what writes the rows it reads
NextLogin ==
  \/ \E e \in Emails, p \in Passwords : Register(e, p)
  \/ \E e \in Emails, p \in Passwords : Login(e, p)
  \/ \E u \in UserIds : DeleteAccount(u)
  \/ \E t \in Tokens, c \in Passwords, n \in Passwords : ChangePassword(t, c, n)
  \/ \E u \in UserIds, b \in BOOLEAN : SetBanned(u, b)
  \/ TickJwt

\* sessions: the tokens login hands out, refreshed and revoked
NextSession ==
  \/ \E e \in Emails, p \in Passwords : Register(e, p)
  \/ \E e \in Emails, p \in Passwords : Login(e, p)
  \/ \E t \in Tokens : RefreshToken(t)
  \/ \E t \in Tokens : Logout(t)
  \/ JwtCleanupExpiredTokens
  \/ TickJwt

\* account recovery and e-mail verification, which work on the stored
\* (non-JWT) tokens of the accounts table
NextRecovery ==
  \/ \E e \in Emails, p \in Passwords : Register(e, p)
  \/ \E e \in Emails : ForgotPassword(e)
  \/ \E k \in SecureTokens, p \in Passwords : ResetPassword(k, p)
  \/ \E k \in SecureTokens : VerifyEmail(k)
  \/ \E e \in Emails : ResendVerification(e)
  \/ \E u \in UserIds : DeleteAccount(u)
  \/ TickStored

\* the codec and the blacklist on their own: JWTUtils called directly
CodecUserIds == {1}
CodecEmails == {"a@x.com"}
NextCodec ==
  \/ \E u \in CodecUserIds, e \in CodecEmails, ty \in TokenTypes : GenerateToken(u, e, ty)
  \/ \E t \in Tokens \cup {Forged}, ty \in TokenTypes : VerifyToken(t, ty)
  \/ \E t \in Tokens \cup {Forged, NoToken} : AuthenticateToken(t)
  \/ \E t \in Tokens \cup {Forged} : Logout(t)
  \/ JwtCleanupExpiredTokens
  \/ ClearBlacklist
  \/ TickJwt

\* one account's sessions under an administrator's ban and account deletion
RefreshEmails == {"a@x.com"}
NextRefresh ==
  \/ \E e \in RefreshEmails, p \in Passwords : Register(e, p)
  \/ \E e \in RefreshEmails, p \in Passwords : Login(e, p)
  \/ \E t \in Tokens : RefreshToken(t)
  \/ \E t \in Tokens : Logout(t)
  \/ \E u \in UserIds, b \in BOOLEAN : SetBanned(u, b)
  \/ \E u \in UserIds : DeleteAccount(u)
  \/ TickJwt

\* every AuthService operation on one account, with a store that may reject
NextService ==
  \/ \E e \in RefreshEmails, p \in Passwords : Register(e, p)
  \/ \E e \in Emails, p \in Passwords : Login(e, p)
  \/ \E t \in Tokens : RefreshToken(t)
  \/ \E e \in Emails : ForgotPassword(e)
  \/ \E k \in SecureTokens, p \in Passwords : ResetPassword(k, p)
  \/ \E k \in SecureTokens : VerifyEmail(k)
  \/ \E e \in Emails : ResendVerification(e)
  \/ \E t \in Tokens : Logout(t)
  \/ \E u \in UserIds \cup {NewUserId} : GetUserProfile(u)
  \/ \E op \in StoreFirstOps : StoreThrows(op)
  \/ TickOnce

\* register under concurrent requests, with the reads that observe its rows
NextRegister ==
  \/ \E proc \in Procs, e \in Emails, p \in Passwords : RegisterCheck(proc, e, p)
  \/ \E proc \in Procs : RegisterInsert(proc)
  \/ \E e \in Emails, p \in Passwords : Login(e, p)

\* refresh tokens rotated by JWTUtils.refreshAccessToken
NextRotate ==
  \/ \E u \in CodecUserIds, e \in CodecEmails, ty \in TokenTypes : GenerateToken(u, e, ty)
  \/ \E t \in Tokens \cup {Forged} : RefreshAccessToken(t)
  \/ \E t \in Tokens, ty \in TokenTypes : VerifyToken(t, ty)
  \/ JwtCleanupExpiredTokens
  \/ TickJwt

\* stored tokens and the periodic sweep of the expired ones
NextSweep ==
  \/ \E e \in Emails, p \in Passwords : Register(e, p)
  \/ \E e \in Emails : ForgotPassword(e)
  \/ \E e \in Emails : ResendVerification(e)
  \/ AuthCleanupExpiredTokens
  \/ TickStored

\* accounts following one another
FollowIds == {1, 2}
NextFollow ==
  \/ \E e \in Emails, p \in Passwords : Register(e, p)
  \/ \E u \in FollowIds, v \in FollowIds : ToggleFollow(u, v)

\* a session ended through the logout route and continued with the refresh token
NextLogout ==
  \/ \E e \in RefreshEmails, p \in Passwords : Register(e, p)
  \/ \E e \in RefreshEmails, p \in Passwords : Login(e, p)
  \/ \E t \in Tokens \cup {NoToken} : LogoutRoute(t)
  \/ \E t \in Tokens : RefreshToken(t)
  \/ \E t \in Tokens \cup {NoToken} : AuthenticateToken(t)
  \/ TickJwt

\* role-guarded routes
NextRole ==
  \/ \E e \in RefreshEmails, p \in Passwords : Register(e, p)
  \/ \E e \in RefreshEmails, p \in Passwords : Login(e, p)
  \/ \E t \in Tokens : RefreshToken(t)
  \/ \E u \in UserIds, r \in Roles : SetRole(u, r)
  \/ \E u \in CodecUserIds, e \in CodecEmails, r \in Roles : GenerateTokenWithRole(u, e, r)
  \/ \E t \in Tokens \cup {NoToken}, rs \in {AdminOnly, ModeratorOrAdmin} : RequireRole(t, rs)
  \/ TickOnce

\* a password changed in a running session
NextPassword ==
  \/ \E e \in RefreshEmails, p \in Passwords : Register(e, p)
  \/ \E e \in RefreshEmails, p \in Passwords : Login(e, p)
  \/ \E t \in Tokens \cup {NoToken}, c \in Passwords, n \in Passwords : ChangePassword(t, c, n)
  \/ \E e \in RefreshEmails : ForgotPassword(e)
  \/ \E u \in UserIds, b \in BOOLEAN : SetBanned(u, b)
  \/ TickJwt

\* UserService called with ids that name a user and ids that name none
NextUsers ==
  \/ \E e \in Emails, p \in Passwords : Register(e, p)
  \/ \E u \in UserIds \cup {NewUserId} : UpdateUserProfile(u)
  \/ \E u \in UserIds \cup {NewUserId} : DeleteAccount(u)
  \/ \E u \in UserIds \cup {NewUserId} : GetFollowers(u)
  \/ \E u \in UserIds \cup {NewUserId} : GetFollowings(u)
  \/ \E u \in UserIds \cup {NewUserId} : GetAccountStats(u)

Next ==
  \/ NextUsers
  \/ NextPassword
  \/ NextRole
  \/ NextLogout
  \/ NextFollow
  \/ NextSweep
  \/ NextRotate
  \/ NextRegister
  \/ NextService
  \/ NextRefresh
  \/ NextLogin
  \/ NextSession
  \/ NextRecovery
  \/ NextCodec

InitOneEnv == Init /\ env = DistinctEnv
\* the process started with any of the three environments
InitAnyEnv ==
  /\ users = <<>>
  /\ accounts = <<>>
  /\ tokenBlacklist = {}
  /\ blacklistedTokens = <<>>
  /\ env \in Envs \cup {RefreshOnlyEnv}
  /\ now = 0
  /\ nextSecure = 0
  /\ issued = {}
  /\ last = Last0
  /\ revoked = {}
  /\ regPw = [e \in Emails |-> ""]
  /\ registering = [p \in Procs |-> Idle]
  /\ userFollows = <<>>

\* Spec is the whole program.  The users/accounts rows, the stored tokens and
\* the JWT blacklist are written by disjoint groups of handlers, so each group
\* is also a specification of its own, explored within smaller state spaces:
\* a claim is checked under the one that holds every handler writing what the
\* claim's handlers read.
Spec == Init /\ [][Next]_vars
SpecLogin == InitOneEnv /\ [][NextLogin]_vars
SpecSession == InitOneEnv /\ [][NextSession]_vars
SpecRecovery == InitOneEnv /\ [][NextRecovery]_vars
SpecCodec == Init /\ [][NextCodec]_vars
SpecRefresh == InitOneEnv /\ [][NextRefresh]_vars
SpecService == InitOneEnv /\ [][NextService]_vars
SpecRegister == InitOneEnv /\ [][NextRegister]_vars
SpecRotate == InitAnyEnv /\ [][NextRotate]_vars
SpecSweep == InitOneEnv /\ [][NextSweep]_vars
SpecFollow == InitOneEnv /\ [][NextFollow]_vars
SpecLogout == InitOneEnv /\ [][NextLogout]_vars
SpecRole == InitOneEnv /\ [][NextRole]_vars
SpecPassword == InitOneEnv /\ [][NextPassword]_vars
SpecUsers == InitOneEnv /\ [][NextUsers]_vars


\* =================================================================== claims

\* C1: once logout(t) has put a refresh token t in the blacklist, a later
\* refreshToken({refreshToken: t}) returns success=false with code
\* TOKEN_BLACKLISTED and no access token.
C1_RefreshAfterLogoutIsBlacklisted ==
  (last.op = "refreshToken" /\ last.token.type = "refresh"
     /\ last.token \in revoked /\ last.wasBlacklisted)
  => /\ ~last.res.success
     /\ last.res.code = "TOKEN_BLACKLISTED"
     /\ last.res.accessToken = NoToken

\* C2: a token whose blacklistToken call has completed is rejected from then
\* on, as long as clearBlacklist is not called: verifyToken throws for every
\* type and authenticateToken does not call next(), also after
\* cleanupExpiredTokens has dropped the token's entry.
C2_RevokedStaysRejected ==
  /\ \A t \in revoked :
       /\ \A ty \in TokenTypes : ~verifyToken(t, ty).ok
       /\ authenticateTokenCode(t) # ""
  /\ (last.op = "verifyToken" /\ last.token \in revoked) => ~last.verify.ok
  /\ (last.op = "authenticateToken" /\ last.token \in revoked) => ~last.next

\* C2 witness: a validly signed token was revoked, its entry has been cleaned
\* up, and a verifyToken call for its own type has just been refused.
C2_Witness ==
  /\ last.op = "verifyToken"
  /\ last.token \in revoked
  /\ last.token \notin tokenBlacklist
  /\ last.token \in issued
  /\ last.type = last.token.type
  /\ ~last.verify.ok

\* C3 as stated: verifying an issued token under any other type fails with
\* the type-mismatch error, whatever the secrets are.
C3_CrossTypeIsTypeMismatch ==
  \A t \in issued : \A ty \in TokenTypes \ {t.type} :
    verifyToken(t, ty) = VerifyThrow("Invalid token type")

\* C3 amended: verifying an issued token under any other type never returns
\* a payload; the error is the type-mismatch one exactly when the token is
\* not blacklisted, not expired, and the other type's secret is the one that
\* signed it (the shared JWT_SECRET fallback).
C3_CrossTypeFailsClosed ==
  /\ \A t \in issued : \A ty \in TokenTypes \ {t.type} :
       /\ ~verifyToken(t, ty).ok
       /\ verifyToken(t, ty).payload = NoToken
       /\ (verifyToken(t, ty).err = "Invalid token type")
            <=> (~isTokenBlacklisted(t) /\ getJWTSecret(ty) = t.sig /\ now < t.exp)
       /\ (~isTokenBlacklisted(t) /\ getJWTSecret(ty) # t.sig)
            => verifyToken(t, ty).err = "Invalid token: invalid signature"
  /\ (last.op = "verifyToken" /\ last.token \in issued
        /\ last.type # last.token.type) => ~last.verify.ok

\* C3 witness: a verifyToken call for another type than the token's was
\* refused with the type-mismatch error.
C3_Witness ==
  /\ last.op = "verifyToken"
  /\ last.token \in issued
  /\ last.type # last.token.type
  /\ last.verify = VerifyThrow("Invalid token type")

\* C4: after a Register call that found no user with the email, a Login with
\* the same email and password, the user not banned, succeeds and returns an
\* access token and a refresh token of that user.
C4_RegisterThenLogin ==
  (last.op = "login" /\ regPw[last.email] = last.password
     /\ last.hit # 0 /\ ~users[last.hit].isBanned)
  => /\ last.res.success
     /\ last.res.hasData /\ ~last.res.hasError
     /\ last.res.accessToken.type = "access"
     /\ last.res.refreshToken.type = "refresh"
     /\ last.res.accessToken.userId = last.hit
     /\ last.res.refreshToken.userId = last.hit

\* C4 witness: a login with the registered password has returned.
C4_Witness ==
  /\ last.op = "login"
  /\ regPw[last.email] = last.password
  /\ last.res.success
  /\ last.res.accessToken \in issued

\* C5: forgotPassword returns the same generic success result whether or not
\* the account exists, also when the reset e-mail cannot be sent.
C5_ForgotAlwaysGeneric ==
  last.op = "forgotPassword" => last.res = ForgotGeneric

\* C6: resendVerification answers an existing unverified account exactly as
\* it answers an email that has no account.
C6_ResendSameForAbsentAndUnverified ==
  (last.op = "resendVerification"
     /\ (last.hit = 0 \/ ~users[last.hit].isEmailVerified))
  => last.res = ResendGeneric

\* C7: for a target that is not banned, login answers an unknown email, a
\* user row without accounts row, and a wrong password with the one
\* INVALID_CREDENTIALS error (same code, same message).
C7_LoginFailuresIndistinguishable ==
  LET u == last.hit
      unknown == u = 0
      noCredential == u # 0 /\ ~hasAccount(u)
      wrongPassword ==
        u # 0 /\ hasAccount(u) /\ ~comparePassword(last.password, accounts[u].password)
      notBanned == u = 0 \/ ~users[u].isBanned
  IN (last.op = "login" /\ notBanned /\ (unknown \/ noCredential \/ wrongPassword))
     => last.res = Failure("INVALID_CREDENTIALS", "Invalid email or password")

\* C7 witness: a login for a user row that has lost its accounts row was
\* answered INVALID_CREDENTIALS.
C7_Witness ==
  /\ last.op = "login"
  /\ last.hit # 0
  /\ ~hasAccount(last.hit)
  /\ ~users[last.hit].isBanned
  /\ last.res.code = "INVALID_CREDENTIALS"

\* C8: verifyEmail with the token stored on an accounts row, before the stored
\* expiry, succeeds, sets isEmailVerified and nulls the two token columns.
C8_VerifyEmailWithLiveTokenSucceeds ==
  (last.op = "verifyEmail" /\ last.hit # 0 /\ now < last.hitExp)
  => /\ last.res.success
     /\ users[last.hit].isEmailVerified
     /\ accounts[last.hit].emailVerificationToken = NullToken
     /\ accounts[last.hit].emailVerificationExpires = NullDate

\* C9: resetPassword with the token forgotPassword stored, before the stored
\* expiry, succeeds, replaces the hash and nulls the two reset columns; login
\* then accepts the new password and refuses any other.
C9_ResetWithLiveTokenSucceeds ==
  (last.op = "resetPassword" /\ last.hit # 0 /\ now < last.hitExp)
  => /\ last.res.success
     /\ accounts[last.hit].password = hashPassword(last.password)
     /\ accounts[last.hit].passwordResetToken = NullToken
     /\ accounts[last.hit].passwordResetExpires = NullDate
     /\ loginSucceeds(users[last.hit].email, last.password)
     /\ \A p \in Passwords \ {last.password} :
          loginFailure(users[last.hit].email, p) = InvalidCredentials

\* C10: resetPassword with a stored token whose expiry has passed fails with
\* TOKEN_EXPIRED, with a token stored on no row it fails with INVALID_TOKEN,
\* and in both cases the users and accounts rows are left as they were.
C10_ResetFailuresChangeNothing ==
  [][ last'.op = "resetPassword" =>
        /\ (last'.hit # 0 /\ now' > last'.hitExp) =>
             /\ last'.res = Failure("TOKEN_EXPIRED", "Reset token has expired")
             /\ accounts' = accounts
             /\ users' = users
        /\ last'.hit = 0 =>
             /\ last'.res = Failure("INVALID_TOKEN", "Invalid or expired reset token")
             /\ accounts' = accounts
             /\ users' = users ]_vars

\* C10 witness: a resetPassword call with a stored, expired token was refused
\* with TOKEN_EXPIRED.
C10_Witness ==
  /\ last.op = "resetPassword"
  /\ last.hit # 0
  /\ now > last.hitExp
  /\ last.res.code = "TOKEN_EXPIRED"
  /\ accounts[last.hit].passwordResetToken = last.key


\* C11: a verification or reset token that was issued and is stored on no row
\* any more (consumed by a successful call, or overwritten by
\* resendVerification / forgotPassword) is refused with INVALID_TOKEN by
\* verifyEmail and by resetPassword, and the call changes no row.
C11_SpentTokenIsRefused ==
  [][ /\ (/\ last'.op = "verifyEmail"
          /\ last'.key <= nextSecure
          /\ \A u \in DOMAIN accounts : accounts[u].emailVerificationToken # last'.key)
         => /\ last'.res = Failure("INVALID_TOKEN", "Invalid or expired verification token")
            /\ users' = users
            /\ accounts' = accounts
      /\ (/\ last'.op = "resetPassword"
          /\ last'.key <= nextSecure
          /\ \A u \in DOMAIN accounts : accounts[u].passwordResetToken # last'.key)
         => /\ last'.res = Failure("INVALID_TOKEN", "Invalid or expired reset token")
            /\ users' = users
            /\ accounts' = accounts ]_vars

\* C11 witness: the only user's registration token 1 was overwritten by the
\* token 2 of resendVerification, the clock has passed the first expiry, and
\* verifyEmail(1) has been refused with INVALID_TOKEN.
C11_Witness ==
  /\ last.op = "verifyEmail"
  /\ last.key = 1
  /\ UserIds = {1}
  /\ hasAccount(1)
  /\ accounts[1].emailVerificationToken = 2
  /\ now > REGISTER_VERIFICATION_TTL
  /\ last.res.code = "INVALID_TOKEN"


\* C12: when the e-mail dispatch of register, forgotPassword, resetPassword,
\* verifyEmail or resendVerification throws, the operation still returns
\* success=true, and register returns the access/refresh token pair.
C12_MailFailureIsNotFatal ==
  (last.op \in {"register", "forgotPassword", "resetPassword", "verifyEmail",
                "resendVerification"}
     /\ last.mail = "throw")
  => /\ last.res.success
     /\ last.op = "register" =>
          /\ last.res.accessToken.type = "access"
          /\ last.res.refreshToken.type = "refresh"


\* C13: refreshToken with a refresh-token string that fails verification (bad
\* signature, expired, or a token of another type) returns success=false with
\* code INVALID_TOKEN.
C13_RefreshOfBadTokenIsInvalidToken ==
  (last.op = "refreshToken" /\ last.token \in issued /\ ~last.wasBlacklisted
     /\ ~last.verify.ok)
  => /\ ~last.res.success
     /\ last.res.code = "INVALID_TOKEN"


\* C14: refreshToken does not rotate.  A call changes no row and no blacklist
\* entry, a successful call returns one new access token and no refresh
\* token, and a refresh token that is not blacklisted, not expired and whose
\* user exists and is not banned is accepted, however often it was exchanged.
C14_RefreshDoesNotRotate ==
  /\ [][ last'.op = "refreshToken" =>
           /\ users' = users
           /\ accounts' = accounts
           /\ tokenBlacklist' = tokenBlacklist
           /\ blacklistedTokens' = blacklistedTokens
           /\ last'.res.success =>
                /\ last'.res.accessToken.type = "access"
                /\ last'.res.accessToken.userId = last'.token.userId
                /\ last'.res.refreshToken = NoToken
                /\ issued' = issued \cup {last'.res.accessToken}
           /\ ~last'.res.success => issued' = issued ]_vars
  /\ [](\A t \in issued :
          (/\ t.type = "refresh"
           /\ ~isTokenBlacklisted(t)
           /\ now < t.exp
           /\ t.userId \in UserIds
           /\ ~users[t.userId].isBanned)
          => refreshTokenResult(t).success)
  /\ []((last.op = "refreshToken" /\ last.res.success)
          => refreshTokenResult(last.token).success)

\* C14 witness: a refresh token issued earlier has just been exchanged for an
\* access token of a later instant, after an access token had already been
\* issued to the same user, and it is still not revoked.
C14_Witness ==
  /\ last.op = "refreshToken"
  /\ last.res.success
  /\ last.res.accessToken.iat > last.token.iat
  /\ \E a \in issued : a.type = "access" /\ a.userId = last.token.userId
                       /\ a # last.res.accessToken
  /\ ~isTokenBlacklisted(last.token)
  /\ refreshTokenResult(last.token).success


\* C15: logout(token) returns success for every token string (never revoked,
\* already revoked, or not decodable), and the token is blacklisted when it
\* returns.
C15_LogoutAlwaysSucceeds ==
  last.op = "logout" =>
    /\ last.res.success
    /\ isTokenBlacklisted(last.token)


\* C16: every AuthService operation returns a result, whatever the store, the
\* codec or the e-mail dispatcher does: success=true comes with data and no
\* error, success=false with an error {code, message} and no data.
C16_UniformResult ==
  last.op \in {"register", "login", "refreshToken", "forgotPassword",
               "resetPassword", "verifyEmail", "resendVerification", "logout",
               "getUserProfile"}
  => /\ last.res.success =>
          /\ last.res.hasData
          /\ ~last.res.hasError
          /\ last.res.code = ""
          /\ last.res.errMessage = ""
     /\ ~last.res.success =>
          /\ last.res.hasError
          /\ ~last.res.hasData
          /\ last.res.code # ""
          /\ last.res.errMessage # ""
          /\ last.res.message = ""
          /\ last.res.accessToken = NoToken
          /\ last.res.refreshToken = NoToken

\* C16 witness: the codec threw inside refreshToken (an expired access token
\* of the server's own was presented) and the call returned an error result.
C16_Witness ==
  /\ last.op = "refreshToken"
  /\ last.token \in issued
  /\ last.token.type = "access"
  /\ now > last.token.exp
  /\ ~last.verify.ok
  /\ last.res.hasError
  /\ ~last.res.hasData


C18_LoginFrame ==
  [][ last'.op = "login" =>
        /\ accounts' = accounts
        /\ tokenBlacklist' = tokenBlacklist
        /\ blacklistedTokens' = blacklistedTokens
        /\ ~last'.res.success =>
             /\ last'.res.code \in {"INVALID_CREDENTIALS", "USER_BANNED"}
             /\ users' = users
             /\ issued' = issued
        /\ last'.res.success =>
             /\ last'.hit \in UserIds
             /\ users' = [users EXCEPT ![last'.hit].lastLoginAt = now] ]_vars

\* C18 witness: a login has succeeded; lastLoginAt, NULL before, is the
\* instant of the call, and the row is otherwise as registration left it.
C18_Witness ==
  /\ last.op = "login"
  /\ last.res.success
  /\ users[last.hit] = [NewUserRow(last.email) EXCEPT !.lastLoginAt = now]
  /\ accounts[last.hit].password = hashPassword(last.password)
  /\ last.res.refreshToken \in issued


\* C19: register rejects an existing email under every interleaving of
\* concurrent calls: no two users rows ever hold the same email, and a call
\* that finds the email taken returns USER_EXISTS.
C19_ConcurrentRegisterRejectsDuplicate ==
  /\ \A u, v \in UserIds : users[u].email = users[v].email => u = v
  /\ Cardinality(DOMAIN accounts) = Cardinality(UserIds)
  /\ (last.op = "register" /\ last.hit # 0)
       => last.res = Failure("USER_EXISTS", "User with this email already exists")


\* C20: in every reachable state each users row has its accounts row and each
\* accounts row belongs to a users row: the two exist together or not at all.
C20_UserHasCredential ==
  /\ \A u \in UserIds : hasAccount(u)
  /\ \A a \in DOMAIN accounts : a \in UserIds


\* C22: refreshAccessToken(r) rotates atomically: when it returns a pair, r is
\* blacklisted and a second call with r fails; when it throws (verification
\* or token generation failed), the blacklist is as it was.
C22_RotationIsAtomic ==
  [][ last'.op = "refreshAccessToken" =>
        /\ last'.ret = "returned" =>
             /\ last'.token \in tokenBlacklist'
             /\ last'.res.accessToken.type = "access"
             /\ last'.res.refreshToken.type = "refresh"
        /\ last'.ret = "threw" =>
             /\ tokenBlacklist' = tokenBlacklist
             /\ blacklistedTokens' = blacklistedTokens ]_vars


\* C23: after AuthService.cleanupExpiredTokens at time now, no account holds
\* a verification token or a reset token whose expiry is before now (each is
\* nulled on its own, whatever the state of the other), and no token that had
\* not expired was cleared.
C23_SweepClearsEveryExpiredToken ==
  [][ last'.op = "cleanupExpiredTokens" =>
        \A a \in DOMAIN accounts :
          /\ ~Lt(accounts'[a].emailVerificationExpires, now)
          /\ ~Lt(accounts'[a].passwordResetExpires, now)
          /\ ~Lt(accounts[a].emailVerificationExpires, now) =>
               /\ accounts'[a].emailVerificationToken = accounts[a].emailVerificationToken
               /\ accounts'[a].emailVerificationExpires = accounts[a].emailVerificationExpires
          /\ ~Lt(accounts[a].passwordResetExpires, now) =>
               /\ accounts'[a].passwordResetToken = accounts[a].passwordResetToken
               /\ accounts'[a].passwordResetExpires = accounts[a].passwordResetExpires ]_vars


\* C24 (as stated): JWTUtils.cleanupExpiredTokens at time now removes exactly
\* the entries whose expiresAt is before now, leaves every other entry as it
\* was, and every verifyToken call has the same outcome after it as before
\* it, the thrown error included.
C24_CleanupKeepsEveryVerifyResult ==
  [][ last'.op = "cleanupExpiredTokens" =>
        /\ tokenBlacklist' =
             {t \in tokenBlacklist : ~(blacklistedTokens[t].expiresAt < now)}
        /\ DOMAIN blacklistedTokens' =
             {t \in DOMAIN blacklistedTokens : ~(blacklistedTokens[t].expiresAt < now)}
        /\ \A t \in DOMAIN blacklistedTokens' : blacklistedTokens'[t] = blacklistedTokens[t]
        /\ \A t \in Tokens \cup {Forged}, ty \in TokenTypes :
             verifyToken(t, ty)' = verifyToken(t, ty) ]_vars

\* C24 (amended): the same removal, and every verifyToken call returns the
\* same payload or throws after the cleanup exactly as before it; only the
\* message of the throw may differ ("Token has been revoked" before,
\* "Invalid token: ..." after, for a removed entry).
C24_CleanupKeepsAcceptance ==
  [][ last'.op = "cleanupExpiredTokens" =>
        /\ tokenBlacklist' =
             {t \in tokenBlacklist : ~(blacklistedTokens[t].expiresAt < now)}
        /\ DOMAIN blacklistedTokens' =
             {t \in DOMAIN blacklistedTokens : ~(blacklistedTokens[t].expiresAt < now)}
        /\ \A t \in DOMAIN blacklistedTokens' : blacklistedTokens'[t] = blacklistedTokens[t]
        /\ \A t \in Tokens \cup {Forged}, ty \in TokenTypes :
             /\ verifyToken(t, ty)'.ok = verifyToken(t, ty).ok
             /\ verifyToken(t, ty)'.payload = verifyToken(t, ty).payload
             /\ (verifyToken(t, ty)'.err # verifyToken(t, ty).err =>
                   /\ verifyToken(t, ty).err = "Token has been revoked"
                   /\ t \in tokenBlacklist \ tokenBlacklist') ]_vars
\* a cleanup has just removed the entry of a revoked token
C24_Witness ==
  /\ last.op = "cleanupExpiredTokens"
  /\ \E t \in revoked : t \notin tokenBlacklist /\ t.exp < now


\* C25: whatever the order of blacklistToken, isTokenBlacklisted,
\* cleanupExpiredTokens and clearBlacklist calls, the set tokenBlacklist is
\* the key set of the map blacklistedTokens, and isTokenBlacklisted(t) is true
\* exactly for the tokens that were blacklisted and not removed since: a
\* successful blacklistToken(t) adds t, cleanupExpiredTokens takes out the
\* entries expired before now, clearBlacklist takes out all, and nothing else
\* changes the answer.
C25_MembershipMatchesMap ==
  /\ [](tokenBlacklist = DOMAIN blacklistedTokens)
  /\ [][ \A t \in Tokens \cup {Forged} :
           isTokenBlacklisted(t)' =
             IF last'.op = "logout" /\ last'.token = t /\ last'.res.success
               THEN TRUE
             ELSE IF last'.op = "cleanupExpiredTokens"
               THEN isTokenBlacklisted(t) /\ ~(blacklistedTokens[t].expiresAt < now)
             ELSE IF last'.op = "clearBlacklist"
               THEN FALSE
             ELSE isTokenBlacklisted(t) ]_vars
\* a cleanup has removed one blacklisted token and kept another
C25_Witness ==
  /\ last.op = "cleanupExpiredTokens"
  /\ tokenBlacklist # {}
  /\ revoked \ tokenBlacklist # {}


\* C26: toggleFollow(u, v) toggles the one follow row (follower u, following
\* v): when u follows v it deletes the row and returns isFollowing = false,
\* otherwise it inserts the row and returns isFollowing = true; so no pair
\* ever has two rows, and the returned isFollowing says whether u follows v
\* after the call.
C26_ToggleFollowToggles ==
  /\ [](\A i, j \in 1..Len(userFollows) : userFollows[i] = userFollows[j] => i = j)
  /\ [][ last'.op = "toggleFollow" /\ last'.ret = "returned" =>
           /\ last'.isFollowing = ~hasFollowRow(last'.follower, last'.following)
           /\ last'.isFollowing =
                (\E i \in 1..Len(userFollows') :
                   userFollows'[i] = FollowRow(last'.follower, last'.following)) ]_vars


\* C27: POST /auth/logout revokes only the access token of the Authorization
\* header: no refresh token is ever blacklisted through it, and refreshToken
\* with the refresh token of the login whose access token was revoked still
\* succeeds and mints an access token that authenticateToken accepts.
C27_LogoutKeepsTheRefreshToken ==
  /\ \A t \in tokenBlacklist : t.type = "access"
  /\ ( /\ last.op = "refreshToken"
       /\ last.token \in issued
       /\ last.token.type = "refresh"
       /\ \E a \in revoked : /\ a.type = "access"
                             /\ a.userId = last.token.userId
                             /\ a.iat = last.token.iat )
     => /\ last.res.success
        /\ authenticateTokenCode(last.res.accessToken) = ""


\* C28: authenticateToken followed by requireRole(R) calls next() only for a
\* verified access token whose payload carries a role in R; the access tokens
\* returned by register, login and refreshToken carry no role, so a request
\* that authenticates with one of them gets 403 INSUFFICIENT_PERMISSIONS
\* from requireAdmin and requireModerator, whatever users.role says.
C28_RoleComesFromTheTokenOnly ==
  /\ [](last.op = "requireRole" =>
          /\ last.next => /\ last.token # NoToken
                          /\ verifyAccessToken(last.token).ok
                          /\ "role" \in DOMAIN last.token
                          /\ last.token.role \in last.roles
          /\ ( /\ "role" \notin DOMAIN last.token
               /\ authenticateTokenCode(last.token) = "" )
             => /\ ~last.next
                /\ last.res.code = "INSUFFICIENT_PERMISSIONS")
  /\ [](last.op \in {"register", "login", "refreshToken"} /\ last.res.success =>
          "role" \notin DOMAIN last.res.accessToken)
\* an administrator of the database presents the token of their own login and is refused
C28_Witness ==
  /\ last.op = "requireRole"
  /\ last.roles = AdminOnly
  /\ last.token \in issued
  /\ "role" \notin DOMAIN last.token
  /\ last.token.userId \in UserIds
  /\ users[last.token.userId].role = "admin"
  /\ last.res.code = "INSUFFICIENT_PERMISSIONS"


C30_AbsentUserIsNotFound ==
  (last.op \in {"updateUserProfile", "deleteAccount", "getFollowers", "getFollowings",
                "getAccountStats"} /\ last.hit \notin UserIds)
  => /\ last.op = "updateUserProfile" => last.ret = "false" /\ last.res.code = "NOT_FOUND"
     /\ last.op = "deleteAccount" => last.ret = "false"
     /\ last.op \in {"getFollowers", "getFollowings", "getAccountStats"} => last.ret = "null"

====
